---- MODULE Spec2Model ----
(***************************************************************************)
(* The vector index manager of ai-rag-system: the relational chunk store,  *)
(* the three snapshot files (plus the two shared .tmp files) of the data   *)
(* directory, and, for every server process sharing that directory, the    *)
(* in-memory index state, the module lock, the task queue and its worker.  *)
(*                                                                         *)
(* A vector is identified by the id of the chunk whose embedding it is, so *)
(* row i of an index is the id of the chunk stored at row i.               *)
(* Every access to the store or to a file is one step; the in-memory       *)
(* assignments that follow it under the lock belong to the same step.      *)
(* A document write and the enqueue of its task are one step.              *)
(***************************************************************************)
EXTENDS Integers, Sequences, FiniteSets, TLC

\* ------------------------------------------------------------ bounds
NumProcs == 2
MaxWrites == 2          \* document writes, all processes serving
MaxTasks == 4           \* document writes, one process serving
MaxChunksPerDoc == 1    \* chunks of one document
MaxClock == 2           \* distinct values of time.time()
MaxCorrupt == 1         \* faults of the environment: a damaged file, a failing access
MaxTopK == 2            \* largest top_k of a search

\* ------------------------------------------------- program constants
\* settings.FAISS_MIN_TRAIN, read from the environment (default 1000).
FAISS_MIN_TRAIN == 2

Procs == 1..NumProcs

VARIABLES
    documents,              \* ids of the rows of table documents
    chunks,                 \* rows of table chunks
    nextDocId,              \* AUTOINCREMENT of documents.id
    nextChunkId,            \* AUTOINCREMENT of chunks.id
    dbSeq,                  \* number of committed document writes
    removed,                \* [seq, chunk_id]: write seq took chunk_id out of the store
    clock,                  \* last value returned by time.time()
    INDEX_PATH,             \* data/rag.faiss
    META_PATH,              \* data/rag_meta.json
    VERSION_PATH,           \* data/rag_index_version.txt
    index_tmp,              \* data/rag.faiss.tmp
    meta_tmp,               \* data/rag_meta.json.tmp
    nsaves,                 \* number of _save_index_atomic calls started
    ncorrupt,               \* number of faults the environment has caused
    faiss,                  \* the module global faiss: FALSE when the import failed
    fault,                  \* the failure the next store read or file write meets
    _index,                 \* per process: the module global _index
    _chunk_infos,           \* per process: the module global _chunk_infos
    _last_loaded_version,   \* per process: the module global
    task_queue,             \* per process: app.state.index_queue
    wpc,                    \* per process: where the worker thread is
    op,                     \* per process: the call holding _lock
    executed,               \* per process: tasks the worker executed, in order
    discarded,              \* per process: tasks the drain dropped, in order
    readSeq                 \* per process: dbSeq seen by the worker's last rebuild

vars == <<documents, chunks, nextDocId, nextChunkId, dbSeq, removed, clock,
          INDEX_PATH, META_PATH, VERSION_PATH, index_tmp, meta_tmp,
          nsaves, ncorrupt, faiss, fault, _index, _chunk_infos, _last_loaded_version,
          task_queue, wpc, op, executed, discarded, readSeq>>

dbVars == <<documents, chunks, nextDocId, nextChunkId, dbSeq, removed>>
diskVars == <<INDEX_PATH, META_PATH, VERSION_PATH, index_tmp, meta_tmp>>
memVars == <<_index, _chunk_infos, _last_loaded_version>>
workerVars == <<task_queue, wpc, executed, discarded>>
envVars == <<ncorrupt, faiss, fault>>

\* ------------------------------------------------------------ values
NoneIndex == [present |-> FALSE, kind |-> "none", rows |-> <<>>]

NoIndexFile == [state |-> "absent", index |-> NoneIndex, save |-> 0]

NoMetaFile == [state |-> "absent", chunk_infos |-> <<>>, save |-> 0]

NoVersionFile == [state |-> "absent", val |-> 0, save |-> 0]

NoOp ==
    [kind |-> "none", pc |-> "none", ctx |-> "none", saver |-> "none",
     chunks |-> <<>>, version |-> 0, save |-> 0, result |-> "none",
     newer |-> FALSE, pre |-> <<>>, read_index |-> 0, read_meta |-> 0,
     prev_index |-> 0, prev_meta |-> 0, corpus |-> -1,
     top_k |-> 0, hits |-> <<>>, stats |-> <<>>, since |-> -1, doc |-> <<>>,
     read_before |-> -1, marker |-> "none"]

RebuildTask(seq) == [type |-> "rebuild_index", doc_id |-> 0, seq |-> seq]

AddTask(doc_id, seq) == [type |-> "add_chunks", doc_id |-> doc_id, seq |-> seq]

\* ------------------------------------------------- relational store
ChunkKey(c) == c.document_id * (MaxChunksPerDoc + 1) + c.chunk_index

RECURSIVE OrderChunks(_)
OrderChunks(S) ==
    IF S = {} THEN <<>>
    ELSE LET m == CHOOSE c \in S : \A d \in S : ChunkKey(c) <= ChunkKey(d)
         IN  <<m>> \o OrderChunks(S \ {m})

\* SELECT ... FROM chunks c JOIN documents d ... ORDER BY c.document_id, c.chunk_index
get_all_chunks_with_document_info ==
    OrderChunks({c \in chunks : c.document_id \in documents})

\* A variant of get_chunks_by_document_id without the WHERE clause.
get_chunks_by_document_id_All(doc_id) ==
    OrderChunks({c \in chunks : c.document_id \in documents})

\* SELECT ... WHERE c.document_id = ? ORDER BY c.chunk_index
get_chunks_by_document_id(doc_id) ==
    OrderChunks({c \in chunks : c.document_id \in documents /\ c.document_id = doc_id})

\* [c for c in chunks if c.get("embedding")]
WithEmbedding(cs) == SelectSeq(cs, LAMBDA c : c.embedding)

NewChunks(doc_id, n) ==
    {[id |-> nextChunkId + i, document_id |-> doc_id, chunk_index |-> i,
      embedding |-> TRUE] : i \in 0..(n - 1)}

\* The chunks that the write numbered seq deletes with document doc_id.
Removed(doc_id, seq) ==
    {[seq |-> seq, chunk_id |-> c.id] : c \in {x \in chunks : x.document_id = doc_id}}

_chunk_info_row(ch) ==
    [chunk_id |-> ch.id, document_id |-> ch.document_id, chunk_index |-> ch.chunk_index]

\* A variant of InfoRows that leaves out the first chunk.
InfoRows_SkipFirst(cs) == [i \in 1..(Len(cs) - 1) |-> _chunk_info_row(cs[i + 1])]

\* [_chunk_info_row(c) for c in chunks]
InfoRows(cs) == [i \in 1..Len(cs) |-> _chunk_info_row(cs[i])]

VectorRows(cs) == [i \in 1..Len(cs) |-> cs[i].id]

\* ------------------------------------------------------------- Init
Start ==
    /\ documents = {}
    /\ chunks = {}
    /\ nextDocId = 1
    /\ nextChunkId = 1
    /\ dbSeq = 0
    /\ removed = {}
    /\ clock = 1
    /\ INDEX_PATH = NoIndexFile
    /\ META_PATH = NoMetaFile
    /\ VERSION_PATH = NoVersionFile
    /\ index_tmp = NoIndexFile
    /\ meta_tmp = NoMetaFile
    /\ nsaves = 0
    /\ ncorrupt = 0
    /\ fault = "none"
    /\ _index = [p \in Procs |-> NoneIndex]
    /\ _chunk_infos = [p \in Procs |-> <<>>]
    /\ _last_loaded_version = [p \in Procs |-> 0]
    /\ task_queue = [p \in Procs |-> <<>>]
    /\ wpc = [p \in Procs |-> "get"]
    /\ op = [p \in Procs |-> NoOp]
    /\ executed = [p \in Procs |-> <<>>]
    /\ discarded = [p \in Procs |-> <<>>]
    /\ readSeq = [p \in Procs |-> 0]

\* The import of faiss succeeded.
Init == faiss = TRUE /\ Start

\* The import of faiss succeeded, or failed, when the process started.
InitOne == faiss \in BOOLEAN /\ Start

\* ------------------------------------------------ document handlers
\* POST /documents/: insert the document and its chunks, enqueue add_chunks.
create_document(p, n) ==
    /\ documents' = documents \cup {nextDocId}
    /\ chunks' = chunks \cup NewChunks(nextDocId, n)
    /\ nextDocId' = nextDocId + 1
    /\ nextChunkId' = nextChunkId + n
    /\ dbSeq' = dbSeq + 1
    /\ task_queue' = [task_queue EXCEPT ![p] = Append(@, AddTask(nextDocId, dbSeq + 1))]
    /\ UNCHANGED <<removed, clock, diskVars, nsaves, envVars, memVars, wpc, op,
                   executed, discarded, readSeq>>

\* PUT /documents/{id} with content: replace the chunks, enqueue rebuild_index.
update_document_route(p, id, n) ==
    /\ id \in documents
    /\ chunks' = {c \in chunks : c.document_id # id} \cup NewChunks(id, n)
    /\ nextChunkId' = nextChunkId + n
    /\ dbSeq' = dbSeq + 1
    /\ removed' = removed \cup Removed(id, dbSeq + 1)
    /\ task_queue' = [task_queue EXCEPT ![p] = Append(@, RebuildTask(dbSeq + 1))]
    /\ UNCHANGED <<documents, nextDocId, clock, diskVars, nsaves, envVars, memVars,
                   wpc, op, executed, discarded, readSeq>>

\* DELETE /documents/{id}: delete the document and its chunks, enqueue rebuild_index.
delete_document_route(p, id) ==
    /\ id \in documents
    /\ documents' = documents \ {id}
    /\ chunks' = {c \in chunks : c.document_id # id}
    /\ dbSeq' = dbSeq + 1
    /\ removed' = removed \cup Removed(id, dbSeq + 1)
    /\ task_queue' = [task_queue EXCEPT ![p] = Append(@, RebuildTask(dbSeq + 1))]
    /\ UNCHANGED <<nextDocId, nextChunkId, clock, diskVars, nsaves, envVars, memVars,
                   wpc, op, executed, discarded, readSeq>>

\* ------------------------------------------------------ version marker
_load_version_from_disk ==
    IF VERSION_PATH.state = "ok" THEN VERSION_PATH.val ELSE 0

\* ------------------------------------------------- calls under _lock
\* A variant of Locked in which _lock is never seen as held.
Locked_Never(p) == FALSE

\* with _lock: a call of process p is inside its with block.
Locked(p) == op[p].kind # "none"

Enter(p, kind) ==
    [NoOp EXCEPT !.kind = kind,
                 !.pre = <<_index[p], _chunk_infos[p], _last_loaded_version[p]>>]

Done(o, r) ==
    [o EXCEPT !.pc = "done", !.result = r, !.prev_index = 0, !.prev_meta = 0]

\* A variant of AfterLoad in which ensure_index returns the result of the direct
\* load and never reaches the cold-start build.
AfterLoad_NoColdBuild(o, ok, idx, infos) ==
    CASE o.ctx = "reload" ->
           IF idx.present /\ Len(infos) > 0
           THEN Done(o, "true")
           ELSE [o EXCEPT !.pc = "load_index", !.ctx = "direct"]
      [] o.ctx = "direct" ->
           IF ok THEN Done(o, "true") ELSE Done(o, "false")
      [] OTHER ->
           IF ok THEN [o EXCEPT !.pc = "append"] ELSE [o EXCEPT !.pc = "build"]

\* Where the caller of load_index_from_disk goes on with its return value ok,
\* the in-memory state being idx, infos when it returns.
AfterLoad(o, ok, idx, infos) ==
    CASE o.ctx = "reload" ->
           \* ensure_index, after _reload_if_disk_newer()
           IF idx.present /\ Len(infos) > 0
           THEN Done(o, "true")
           ELSE [o EXCEPT !.pc = "load_index", !.ctx = "direct"]
      [] o.ctx = "direct" ->
           IF ok THEN Done(o, "true") ELSE [o EXCEPT !.pc = "build"]
      [] OTHER ->
           \* add_chunks_to_index
           IF ok THEN [o EXCEPT !.pc = "append"] ELSE [o EXCEPT !.pc = "build"]

\* A variant of ReloadNeeded that reloads only into an empty memory.
ReloadNeeded_OnlyIfEmpty(p) ==
    /\ _load_version_from_disk > _last_loaded_version[p]
    /\ INDEX_PATH.state # "absent"
    /\ META_PATH.state # "absent"
    /\ ~_index[p].present

\* _reload_if_disk_newer: the condition under which it calls load_index_from_disk.
ReloadNeeded(p) ==
    /\ _load_version_from_disk > _last_loaded_version[p]
    /\ INDEX_PATH.state # "absent"
    /\ META_PATH.state # "absent"

\* Process q is inside _save_index_atomic, past its first write.
MidSave(q) ==
    op[q].pc \in {"save_meta_tmp", "rename_index", "rename_meta", "write_version"}

\* ensure_index up to its first file access after the version marker.
ensure_index(p) ==
    /\ ~Locked(p)
    /\ LET o == [Enter(p, "ensure_index") EXCEPT
                    !.ctx = "reload",
                    !.marker = VERSION_PATH.state,
                    !.since = IF \E q \in Procs : MidSave(q) THEN -1 ELSE nsaves,
                    !.newer = _load_version_from_disk > _last_loaded_version[p]]
       IN  op' = [op EXCEPT ![p] =
                    IF ReloadNeeded(p)
                    THEN [o EXCEPT !.pc = "load_index"]
                    ELSE AfterLoad(o, FALSE, _index[p], _chunk_infos[p])]
    /\ UNCHANGED <<dbVars, clock, diskVars, nsaves, envVars, memVars, workerVars,
                   readSeq>>

\* load_index_from_disk: the exists() checks and faiss.read_index.
LoadFailsEarly ==
    \/ ~faiss
    \/ INDEX_PATH.state = "absent"
    \/ META_PATH.state = "absent"
    \/ INDEX_PATH.state = "corrupt"

load_index(p) ==
    /\ op[p].pc = "load_index"
    /\ IF LoadFailsEarly
       THEN /\ op' = [op EXCEPT ![p] = AfterLoad(@, FALSE, _index[p], _chunk_infos[p])]
            /\ UNCHANGED _index
       ELSE /\ _index' = [_index EXCEPT ![p] = INDEX_PATH.index]
            /\ op' = [op EXCEPT ![p] = [@ EXCEPT !.pc = "load_meta",
                                                 !.read_index = INDEX_PATH.save]]
    /\ UNCHANGED <<dbVars, clock, diskVars, nsaves, envVars, _chunk_infos,
                   _last_loaded_version, workerVars, readSeq>>

\* load_index_from_disk: json.loads(META_PATH.read_text()) and meta.get("chunk_infos").
load_meta(p) ==
    /\ op[p].pc = "load_meta"
    /\ IF META_PATH.state # "ok"
       THEN /\ op' = [op EXCEPT ![p] = AfterLoad(@, FALSE, _index[p], _chunk_infos[p])]
            /\ UNCHANGED _chunk_infos
       ELSE /\ _chunk_infos' = [_chunk_infos EXCEPT ![p] = META_PATH.chunk_infos]
            /\ op' = [op EXCEPT ![p] = [@ EXCEPT !.pc = "load_version",
                                                 !.read_meta = META_PATH.save]]
    /\ UNCHANGED <<dbVars, clock, diskVars, nsaves, envVars, _index,
                   _last_loaded_version, workerVars, readSeq>>

\* A variant of load_version that leaves the in-memory version as it was.
load_version_KeepVersion(p) ==
    /\ op[p].pc = "load_version"
    /\ op' = [op EXCEPT ![p] =
                AfterLoad(@, Len(_chunk_infos[p]) > 0, _index[p], _chunk_infos[p])]
    /\ UNCHANGED <<dbVars, clock, diskVars, nsaves, envVars, memVars, workerVars,
                   readSeq>>

\* load_index_from_disk: the version marker, and the return value.
load_version(p) ==
    /\ op[p].pc = "load_version"
    /\ _last_loaded_version' = [_last_loaded_version EXCEPT ![p] = _load_version_from_disk]
    /\ op' = [op EXCEPT ![p] =
                AfterLoad(@, Len(_chunk_infos[p]) > 0, _index[p], _chunk_infos[p])]
    /\ UNCHANGED <<dbVars, clock, diskVars, nsaves, envVars, _index, _chunk_infos,
                   workerVars, readSeq>>

\* A variant of IndexKind that trains an index only above the threshold.
IndexKind_Above(n) == IF n > FAISS_MIN_TRAIN THEN "IVFFlat" ELSE "FlatIP"

\* build_index_from_db: if len(chunks) >= settings.FAISS_MIN_TRAIN.
IndexKind(n) == IF n >= FAISS_MIN_TRAIN THEN "IVFFlat" ELSE "FlatIP"

\* build_index_from_db up to the call of _save_index_atomic.

\* The index built over the chunks cs.
BuiltIndex(cs) == [present |-> TRUE, kind |-> IndexKind(Len(cs)), rows |-> VectorRows(cs)]

build_index_from_db(p, o) ==
    LET cs == WithEmbedding(get_all_chunks_with_document_info)
    IN  IF ~faiss
        THEN /\ op' = [op EXCEPT ![p] = Done([o EXCEPT !.saver = "build"], "false")]
             /\ UNCHANGED <<memVars, fault>>
        ELSE IF fault = "store"
        THEN \* _get_chunks_for_index() raises
             /\ op' = [op EXCEPT ![p] = Done([o EXCEPT !.saver = "build"], "raise")]
             /\ fault' = "none"
             /\ UNCHANGED memVars
        ELSE IF cs = <<>>
        THEN /\ _index' = [_index EXCEPT ![p] = NoneIndex]
             /\ _chunk_infos' = [_chunk_infos EXCEPT ![p] = <<>>]
             /\ _last_loaded_version' = [_last_loaded_version EXCEPT ![p] = 0]
             /\ op' = [op EXCEPT ![p] =
                         Done([o EXCEPT !.saver = "build", !.corpus = 0], "false")]
             /\ UNCHANGED fault
        ELSE /\ _index' = [_index EXCEPT ![p] = BuiltIndex(cs)]
             /\ _chunk_infos' = [_chunk_infos EXCEPT ![p] = InfoRows(cs)]
             /\ UNCHANGED <<_last_loaded_version, fault>>
             /\ op' = [op EXCEPT ![p] = [o EXCEPT !.pc = "save_index_tmp",
                                                  !.saver = "build",
                                                  !.chunks = cs,
                                                  !.corpus = Len(cs)]]

\* The cold-start build of ensure_index and the fallback build of add_chunks_to_index.
build(p) ==
    /\ op[p].pc = "build"
    /\ build_index_from_db(p, op[p])
    /\ UNCHANGED <<dbVars, clock, diskVars, nsaves, ncorrupt, faiss, workerVars,
                   readSeq>>

\* add_chunks_to_index: _index.add(vectors); _chunk_infos.extend(...).
append(p) ==
    /\ op[p].pc = "append"
    /\ _index' = [_index EXCEPT ![p].rows = @ \o VectorRows(op[p].chunks)]
    /\ _chunk_infos' = [_chunk_infos EXCEPT ![p] = @ \o InfoRows(op[p].chunks)]
    /\ op' = [op EXCEPT ![p] = [@ EXCEPT !.pc = "save_index_tmp", !.saver = "add"]]
    /\ UNCHANGED <<dbVars, clock, diskVars, nsaves, envVars, _last_loaded_version,
                   workerVars, readSeq>>

\* ---------------------------------------------------- _save_index_atomic
\* version = time.time(); faiss.write_index(index, str(index_tmp))
save_index_tmp(p) ==
    /\ op[p].pc = "save_index_tmp"
    /\ \E t \in {clock, clock + 1} :
         /\ t <= MaxClock
         /\ clock' = t
         /\ op' = [op EXCEPT ![p] = [@ EXCEPT !.pc = "save_meta_tmp",
                                              !.version = t,
                                              !.save = nsaves + 1,
                                              !.prev_index = INDEX_PATH.save,
                                              !.prev_meta = META_PATH.save]]
    /\ nsaves' = nsaves + 1
    /\ index_tmp' = [state |-> "ok", index |-> _index[p], save |-> nsaves + 1]
    /\ UNCHANGED <<dbVars, INDEX_PATH, META_PATH, VERSION_PATH, meta_tmp, envVars,
                   memVars, workerVars, readSeq>>

\* A variant of save_meta_tmp after which the version marker is written before
\* the two renames instead of after them.
save_meta_tmp_VersionFirst(p) ==
    /\ op[p].pc = "save_meta_tmp"
    /\ meta_tmp' = [state |-> "ok", chunk_infos |-> _chunk_infos[p], save |-> op[p].save]
    /\ op' = [op EXCEPT ![p].pc = "write_version"]
    /\ UNCHANGED <<dbVars, clock, INDEX_PATH, META_PATH, VERSION_PATH, index_tmp,
                   nsaves, envVars, memVars, workerVars, readSeq>>

\* meta_tmp.write_text(json.dumps(meta))
save_meta_tmp(p) ==
    /\ op[p].pc = "save_meta_tmp"
    /\ IF fault = "write"
       THEN \* write_text raises OSError
            /\ op' = [op EXCEPT ![p] = Done(@, "raise")]
            /\ fault' = "none"
            /\ UNCHANGED meta_tmp
       ELSE /\ meta_tmp' = [state |-> "ok", chunk_infos |-> _chunk_infos[p],
                            save |-> op[p].save]
            /\ op' = [op EXCEPT ![p].pc = "rename_index"]
            /\ UNCHANGED fault
    /\ UNCHANGED <<dbVars, clock, INDEX_PATH, META_PATH, VERSION_PATH, index_tmp,
                   nsaves, ncorrupt, faiss, memVars, workerVars, readSeq>>

\* if faiss is not None and index_tmp.exists(): os.replace(index_tmp, INDEX_PATH)
rename_index(p) ==
    /\ op[p].pc = "rename_index"
    /\ IF index_tmp.state # "absent"
       THEN /\ INDEX_PATH' = index_tmp
            /\ index_tmp' = NoIndexFile
       ELSE UNCHANGED <<INDEX_PATH, index_tmp>>
    /\ op' = [op EXCEPT ![p].pc = "rename_meta"]
    /\ UNCHANGED <<dbVars, clock, META_PATH, VERSION_PATH, meta_tmp, nsaves, envVars,
                   memVars, workerVars, readSeq>>

\* os.replace(meta_tmp, META_PATH): FileNotFoundError when the .tmp file is gone.
rename_meta(p) ==
    /\ op[p].pc = "rename_meta"
    /\ IF meta_tmp.state # "absent"
       THEN /\ META_PATH' = meta_tmp
            /\ meta_tmp' = NoMetaFile
            /\ op' = [op EXCEPT ![p].pc = "write_version"]
       ELSE /\ UNCHANGED <<META_PATH, meta_tmp>>
            /\ op' = [op EXCEPT ![p] = Done(@, "raise")]
    /\ UNCHANGED <<dbVars, clock, INDEX_PATH, VERSION_PATH, index_tmp, nsaves, envVars,
                   memVars, workerVars, readSeq>>

\* VERSION_PATH.write_text(str(version))
write_version(p) ==
    /\ op[p].pc = "write_version"
    /\ VERSION_PATH' = [state |-> "ok", val |-> op[p].version, save |-> op[p].save]
    /\ op' = [op EXCEPT ![p].pc = "read_version"]
    /\ UNCHANGED <<dbVars, clock, INDEX_PATH, META_PATH, index_tmp, meta_tmp, nsaves,
                   envVars, memVars, workerVars, readSeq>>

\* _last_loaded_version = _load_version_from_disk() after the save: the module
\* global in build_index_from_db, a local of add_chunks_to_index (no global statement).
read_version(p) ==
    /\ op[p].pc = "read_version"
    /\ IF op[p].saver = "build"
       THEN _last_loaded_version' =
                [_last_loaded_version EXCEPT ![p] = _load_version_from_disk]
       ELSE UNCHANGED _last_loaded_version
    /\ op' = [op EXCEPT ![p] = Done(@, "true")]
    /\ UNCHANGED <<dbVars, clock, diskVars, nsaves, envVars, _index, _chunk_infos,
                   workerVars, readSeq>>

\* ------------------------------------------------------------ worker
\* _worker_loop: task_queue.get() of a rebuild_index task, rebuild_index().
worker_rebuild(p) ==
    /\ wpc[p] = "get"
    /\ ~Locked(p)
    /\ task_queue[p] # <<>>
    /\ Head(task_queue[p]).type = "rebuild_index"
    /\ task_queue' = [task_queue EXCEPT ![p] = Tail(@)]
    /\ executed' = [executed EXCEPT ![p] = Append(@, Head(task_queue[p]))]
    /\ wpc' = [wpc EXCEPT ![p] = "busy"]
    /\ readSeq' = [readSeq EXCEPT ![p] = IF faiss /\ fault # "store" THEN dbSeq ELSE @]
    /\ build_index_from_db(p, [Enter(p, "rebuild_index") EXCEPT
                                  !.read_before = readSeq[p]])
    /\ UNCHANGED <<dbVars, clock, diskVars, nsaves, ncorrupt, faiss, discarded>>

\* A variant of NeedsIndex that takes the memory to hold an index always.
NeedsIndex_Never(p) == FALSE

\* add_chunks_to_index: if _index is None or len(_chunk_infos) == 0.
NeedsIndex(p) == ~_index[p].present \/ Len(_chunk_infos[p]) = 0

\* _worker_loop: task_queue.get() of an add_chunks task, add_chunks_to_index(doc_id)
\* up to its first file access.
worker_add(p) ==
    /\ wpc[p] = "get"
    /\ ~Locked(p)
    /\ task_queue[p] # <<>>
    /\ Head(task_queue[p]).type = "add_chunks"
    /\ task_queue' = [task_queue EXCEPT ![p] = Tail(@)]
    /\ executed' = [executed EXCEPT ![p] = Append(@, Head(task_queue[p]))]
    /\ wpc' = [wpc EXCEPT ![p] = "busy"]
    /\ LET cs == WithEmbedding(get_chunks_by_document_id(Head(task_queue[p]).doc_id))
           o == [Enter(p, "add_chunks_to_index") EXCEPT !.ctx = "add", !.chunks = cs,
                                                       !.doc = cs]
           s == [Enter(p, "add_chunks_to_index") EXCEPT !.ctx = "add"]
       IN  IF ~faiss
           THEN op' = [op EXCEPT ![p] = Done(s, "false")] /\ UNCHANGED fault
           ELSE IF fault = "store"
           THEN \* _get_chunks_by_doc_id(doc_id) raises
                op' = [op EXCEPT ![p] = Done(s, "raise")] /\ fault' = "none"
           ELSE /\ op' = [op EXCEPT ![p] =
                            IF cs = <<>> THEN Done(o, "false")
                            ELSE IF NeedsIndex(p)
                                 THEN [o EXCEPT !.pc = "load_index"]
                                 ELSE [o EXCEPT !.pc = "append"]]
                /\ UNCHANGED fault
    /\ UNCHANGED <<dbVars, clock, diskVars, nsaves, ncorrupt, faiss, memVars, discarded,
                   readSeq>>

\* The with _lock block ends: the call returns, or raises what the save raised.
AfterCall(o, w) ==
    IF o.kind \in {"ensure_index", "search", "get_index_stats"} THEN w
    ELSE IF o.result = "raise" THEN "dead"
    ELSE IF o.kind = "rebuild_index" THEN "drain"
    ELSE "get"

return(p) ==
    /\ op[p].pc = "done"
    /\ wpc' = [wpc EXCEPT ![p] = AfterCall(op[p], @)]
    /\ op' = [op EXCEPT ![p] = NoOp]
    /\ UNCHANGED <<dbVars, clock, diskVars, nsaves, envVars, memVars, task_queue,
                   executed, discarded, readSeq>>

\* A variant of Drained that drops whatever task it takes from the queue.
Drained_DropAny(q) ==
    IF q = <<>> THEN [queue |-> q, wpc |-> "get", dropped |-> <<>>]
    ELSE [queue |-> Tail(q), wpc |-> "drain", dropped |-> <<Head(q)>>]

\* _worker_loop: one turn of the drain loop that follows rebuild_index().
Drained(q) ==
    IF q = <<>> THEN [queue |-> q, wpc |-> "get", dropped |-> <<>>]
    ELSE IF Head(q).type = "rebuild_index"
         THEN [queue |-> Tail(q), wpc |-> "drain", dropped |-> <<Head(q)>>]
         ELSE [queue |-> Append(Tail(q), Head(q)), wpc |-> "get", dropped |-> <<>>]

worker_drain(p) ==
    /\ wpc[p] = "drain"
    /\ task_queue' = [task_queue EXCEPT ![p] = Drained(@).queue]
    /\ wpc' = [wpc EXCEPT ![p] = Drained(task_queue[p]).wpc]
    /\ discarded' = [discarded EXCEPT ![p] = @ \o Drained(task_queue[p]).dropped]
    /\ UNCHANGED <<dbVars, clock, diskVars, nsaves, envVars, memVars, op, executed,
                   readSeq>>

\* ------------------------------------------------------------- reads
\* The orders in which _index.search can return len of the n rows of the index.
Rankings(n, len) ==
    {ix \in [1..len -> 1..n] : \A i, j \in 1..len : i # j => ix[i] # ix[j]}

\* A variant of Min that returns the larger of the two.
Min_Larger(a, b) == IF a < b THEN b ELSE a

\* k = min(top_k, _index.ntotal)
Min(a, b) == IF a < b THEN a ELSE b

\* What _index.search(q, k) can return for an index idx: k rows of a FlatIP index,
\* at most k rows of an IVFFlat index (the other labels are -1).
Labels(idx, k) ==
    IF idx.kind = "IVFFlat"
    THEN UNION {Rankings(Len(idx.rows), len) : len \in 0..k}
    ELSE Rankings(Len(idx.rows), k)

\* The result list search builds from the labels ix: a label beyond the metadata
\* list is skipped.
Results(infos, ix) ==
    LET kept == SelectSeq(ix, LAMBDA i : i <= Len(infos))
    IN  [j \in 1..Len(kept) |-> infos[kept[j]]]

\* search(query_embedding, top_k)
search(p, top_k) ==
    /\ ~Locked(p)
    /\ LET o == [Enter(p, "search") EXCEPT !.top_k = top_k]
           k == Min(top_k, Len(_index[p].rows))
       IN  IF ~_index[p].present \/ Len(_chunk_infos[p]) = 0 \/ k <= 0
           THEN op' = [op EXCEPT ![p] = Done(o, "true")]
           ELSE \E ix \in Labels(_index[p], k) :
                    op' = [op EXCEPT ![p] =
                             Done([o EXCEPT !.hits = Results(_chunk_infos[p], ix)], "true")]
    /\ UNCHANGED <<dbVars, clock, diskVars, nsaves, envVars, memVars, workerVars,
                   readSeq>>

\* get_index_stats()
get_index_stats(p) ==
    /\ ~Locked(p)
    /\ LET o == Enter(p, "get_index_stats")
           st == IF ~_index[p].present
                 THEN [ready |-> FALSE, ntotal |-> 0,
                       version |-> _last_loaded_version[p]]
                 ELSE [ready |-> TRUE, ntotal |-> Len(_index[p].rows),
                       version |-> _last_loaded_version[p]]
       IN  op' = [op EXCEPT ![p] = Done([o EXCEPT !.stats = st], "true")]
    /\ UNCHANGED <<dbVars, clock, diskVars, nsaves, envVars, memVars, workerVars,
                   readSeq>>

\* ------------------------------------------------------- environment
\* The metadata file is damaged from outside the program.
corrupt_meta ==
    /\ META_PATH.state = "ok"
    /\ META_PATH' = [META_PATH EXCEPT !.state = "corrupt", !.chunk_infos = <<>>]
    /\ ncorrupt' = ncorrupt + 1
    /\ UNCHANGED <<dbVars, clock, INDEX_PATH, VERSION_PATH, index_tmp, meta_tmp, nsaves,
                   faiss, fault, memVars, workerVars, op, readSeq>>

\* The version marker is damaged from outside the program: its text is no number.
corrupt_version ==
    /\ VERSION_PATH.state = "ok"
    /\ VERSION_PATH' = [VERSION_PATH EXCEPT !.state = "corrupt", !.val = 0]
    /\ ncorrupt' = ncorrupt + 1
    /\ UNCHANGED <<dbVars, clock, INDEX_PATH, META_PATH, index_tmp, meta_tmp, nsaves,
                   faiss, fault, memVars, workerVars, op, readSeq>>

\* The relational store ("store") or the data directory ("write") fails at the
\* next access: the call that makes it raises what the access raises.
fail(f) ==
    /\ fault = "none"
    /\ fault' = f
    /\ ncorrupt' = ncorrupt + 1
    /\ UNCHANGED <<dbVars, clock, diskVars, nsaves, faiss, memVars, workerVars, op,
                   readSeq>>

\* -------------------------------------------------------------- Next
\* A document write handled by process p.
Write(p) ==
    \/ \E n \in 1..MaxChunksPerDoc : create_document(p, n)
    \/ \E id \in documents, n \in 1..MaxChunksPerDoc : update_document_route(p, id, n)
    \/ \E id \in documents : delete_document_route(p, id)

\* A step of a request thread or of the worker thread of process p.
Step(p) ==
    \/ ensure_index(p)
    \/ load_index(p)
    \/ load_meta(p)
    \/ load_version(p)
    \/ build(p)
    \/ append(p)
    \/ save_index_tmp(p)
    \/ save_meta_tmp(p)
    \/ rename_index(p)
    \/ rename_meta(p)
    \/ write_version(p)
    \/ read_version(p)
    \/ worker_rebuild(p)
    \/ worker_add(p)
    \/ return(p)
    \/ worker_drain(p)

\* A read request in process p.
Read(p) ==
    \/ \E top_k \in -1..MaxTopK : search(p, top_k)
    \/ get_index_stats(p)

\* Every process of Procs serves requests on the shared data directory.
Next ==
    \/ \E p \in Procs : dbSeq < MaxWrites /\ Write(p)
    \/ \E p \in Procs : Step(p)

Spec == Init /\ [][Next]_vars

\* One process serves all requests; a snapshot file may be damaged from outside,
\* or an access to the store or to the data directory may fail.
NextOne ==
    \/ dbSeq < MaxTasks /\ Write(1)
    \/ Step(1)
    \/ Read(1)
    \/ ncorrupt < MaxCorrupt /\ corrupt_meta
    \/ ncorrupt < MaxCorrupt /\ corrupt_version
    \/ ncorrupt < MaxCorrupt /\ \E f \in {"store", "write"} : fail(f)

SpecOne == InitOne /\ [][NextOne]_vars

\* Process 1 serves the document writes and runs its worker; process 2, on the
\* same data directory, serves the searches.
NextTwo ==
    \/ dbSeq < MaxWrites /\ Write(1)
    \/ Step(1)
    \/ Step(2)
    \/ Read(2)

SpecTwo == Init /\ [][NextTwo]_vars

\* A step of the call in progress in process p, or of the worker between calls.
Running(p) ==
    \/ load_index(p)
    \/ load_meta(p)
    \/ load_version(p)
    \/ build(p)
    \/ append(p)
    \/ save_index_tmp(p)
    \/ save_meta_tmp(p)
    \/ rename_index(p)
    \/ rename_meta(p)
    \/ write_version(p)
    \/ read_version(p)
    \/ return(p)
    \/ worker_drain(p)

\* The worker thread takes a task from the queue and, with it, _lock.
Dequeue(p) == worker_rebuild(p) \/ worker_add(p)

\* One process serves the document writes and ensure_index; an access to the
\* store or to the data directory may fail.  The threads are scheduled fairly:
\* a call in progress goes on, and a worker that can take a task again and again
\* does take it.
NextFair ==
    \/ dbSeq < MaxWrites /\ Write(1)
    \/ Step(1)
    \/ ncorrupt < MaxCorrupt /\ \E f \in {"store", "write"} : fail(f)

SpecFair == Init /\ [][NextFair]_vars /\ WF_vars(Running(1)) /\ SF_vars(Dequeue(1))

\* The shutdown sentinel (None) as an entry of the queue; seq is the number of
\* document writes made before it was put.
Sentinel(seq) == [type |-> "None", doc_id |-> 0, seq |-> seq]

\* task_queue.put(None): the process is asked to stop its worker, once.
put_sentinel(p) ==
    /\ wpc[p] # "stopped"
    /\ \A i \in DOMAIN task_queue[p] : task_queue[p][i].type # "None"
    /\ task_queue' = [task_queue EXCEPT ![p] = Append(@, Sentinel(dbSeq))]
    /\ UNCHANGED <<dbVars, clock, diskVars, nsaves, envVars, memVars, wpc, op,
                   executed, discarded, readSeq>>

\* _worker_loop: task_queue.get() returns None, the loop breaks.
worker_stop(p) ==
    /\ wpc[p] = "get"
    /\ task_queue[p] # <<>>
    /\ Head(task_queue[p]).type = "None"
    /\ task_queue' = [task_queue EXCEPT ![p] = Tail(@)]
    /\ wpc' = [wpc EXCEPT ![p] = "stopped"]
    /\ UNCHANGED <<dbVars, clock, diskVars, nsaves, envVars, memVars, op, executed,
                   discarded, readSeq>>

\* One process serves the document writes and is asked to stop its worker.
NextStop ==
    \/ dbSeq < MaxTasks /\ Write(1)
    \/ Step(1)
    \/ put_sentinel(1)
    \/ worker_stop(1)

SpecStop == Init /\ [][NextStop]_vars

\* ================================================================ claims

\* Entry i of the metadata list of process p describes the chunk whose vector
\* is row i of its index, and the two have the same length.
Positional(p) ==
    /\ Len(_chunk_infos[p]) = Len(_index[p].rows)
    /\ \A i \in 1..Len(_chunk_infos[p]) : _chunk_infos[p][i].chunk_id = _index[p].rows[i]

\* C1: whenever no call holds the lock of a process, its metadata list has as
\* many entries as its index has vectors and entry i describes row i.
C1_PositionalInvariant == \A p \in Procs : ~Locked(p) => Positional(p)

\* C2: a load that is about to return loaded has read an index file and a
\* metadata file written by one and the same save.
C2_LoadOneSave ==
    \A p \in Procs :
        (op[p].pc = "load_version" /\ Len(_chunk_infos[p]) > 0)
            => op[p].read_index = op[p].read_meta

\* The save of process p has just written its version to the marker.
Published(p) == op[p].pc = "read_version" /\ VERSION_PATH.save = op[p].save

\* C3: when a save has just written its version to the marker, both final files
\* exist and neither still holds what it held when that save began.

C3_VersionAfterRenames ==
    \A p \in Procs :
        Published(p) =>
            /\ INDEX_PATH.state # "absent" /\ INDEX_PATH.save # op[p].prev_index
            /\ META_PATH.state # "absent" /\ META_PATH.save # op[p].prev_meta

\* C3 witness: a save that replaced an earlier snapshot has published its version.
C3_Witness ==
    \E p \in Procs : Published(p) /\ op[p].prev_index # 0 /\ op[p].prev_meta # 0

\* C4: every write of the version marker stores a value strictly greater than
\* the value the marker held before.
C4_MonotonicVersion ==
    [][VERSION_PATH' # VERSION_PATH => VERSION_PATH'.val > _load_version_from_disk]_vars

\* C5: the worker executes tasks in the order they were enqueued.
C5_EnqueueOrder ==
    \A p \in Procs : \A i, j \in DOMAIN executed[p] :
        i < j => executed[p][i].seq < executed[p][j].seq

\* The tasks process p has been handed so far, wherever they are now.
Range(q) == {q[i] : i \in DOMAIN q}

TasksOf(p) == Range(task_queue[p]) \cup Range(executed[p]) \cup Range(discarded[p])

\* Where the task of write w is: queue positions, executions, drops.
Slots == {<<p, i>> : p \in Procs, i \in 1..MaxTasks}

Queued(w) ==
    {x \in Slots : x[2] <= Len(task_queue[x[1]]) /\ task_queue[x[1]][x[2]].seq = w}

Executions(w) ==
    {x \in Slots : x[2] <= Len(executed[x[1]]) /\ executed[x[1]][x[2]].seq = w}

Drops(w) ==
    {x \in Slots : x[2] <= Len(discarded[x[1]]) /\ discarded[x[1]][x[2]].seq = w}

\* d follows an executed rebuild_index of p with only dropped rebuild_index
\* tasks enqueued in between.
ContiguousAfterRebuild(p, d) ==
    \E e \in Range(executed[p]) :
        /\ e.type = "rebuild_index"
        /\ e.seq < d.seq
        /\ \A t \in TasksOf(p) :
               (e.seq < t.seq /\ t.seq < d.seq)
                   => (t.type = "rebuild_index" /\ t \in Range(discarded[p]))

\* Only rebuild_index tasks that follow the executed rebuild contiguously are
\* dropped; every task is in one place only, and an add_chunks task is either
\* still queued or was executed once, never dropped.
OnlyContiguousRebuildsDropped ==
    /\ \A p \in Procs : \A d \in Range(discarded[p]) :
           d.type = "rebuild_index" /\ ContiguousAfterRebuild(p, d)
    /\ \A w \in 1..dbSeq :
           Cardinality(Queued(w)) + Cardinality(Executions(w)) + Cardinality(Drops(w)) = 1
    /\ \A p \in Procs : \A t \in TasksOf(p) :
           t.type = "add_chunks" =>
               Cardinality(Queued(t.seq)) + Cardinality(Executions(t.seq)) = 1

\* The drain of process p ends only at an empty queue or at a task that is not a
\* rebuild_index, and that task is still in the queue afterwards.
DrainStopsAtNonRebuild(p) ==
    (wpc[p] = "drain" /\ wpc'[p] # "drain") =>
        \/ task_queue[p] = <<>>
        \/ /\ Head(task_queue[p]).type # "rebuild_index"
           /\ Head(task_queue[p]) \in Range(task_queue'[p])

C7_DroppedRebuildSubsumed ==
    faiss => \A p \in Procs : \A d \in Range(discarded[p]) : d.seq <= readSeq[p]

\* The worker of p has processed the task of write w: executed or dropped it.
Processed(p, w) ==
    \/ \E d \in Range(discarded[p]) : d.seq = w
    \/ \E e \in Range(executed[p]) : e.seq = w

InfoIds(p) == {_chunk_infos[p][i].chunk_id : i \in DOMAIN _chunk_infos[p]}

\* C8: once the rebuild_index task of a delete or update has been processed, the
\* metadata list holds no chunk that write took out of the store (no task of
\* the worker having raised).
C8_NoStaleChunk ==
    \A p \in Procs : (~Locked(p) /\ wpc[p] # "dead") =>
        \A r \in removed : Processed(p, r.seq) => r.chunk_id \notin InfoIds(p)

\* ensure_index of process p is about to return a value.
Returns(p) ==
    op[p].kind = "ensure_index" /\ op[p].pc = "done" /\ op[p].result # "raise"

\* During its call process p read both snapshot files, and its memory holds what
\* it read (compared with the files as far as they are still the ones read).
Reloaded(p) ==
    /\ op[p].read_index # 0
    /\ op[p].read_meta # 0
    /\ INDEX_PATH.save = op[p].read_index => _index[p] = INDEX_PATH.index
    /\ (META_PATH.save = op[p].read_meta /\ META_PATH.state = "ok")
           => _chunk_infos[p] = META_PATH.chunk_infos

\* During its call process p rebuilt the snapshot from the store and saved it.
Rebuilt(p) == op[p].saver = "build" /\ op[p].result = "true"

Readable(p) == op[p].read_meta # 0 \/ META_PATH.state = "ok"

Ready(p) ==
    _index[p].present /\ Len(_index[p].rows) > 0 /\ Len(_chunk_infos[p]) > 0

\* C10: ensure_index returns true exactly when the memory holds a non-empty index;
\* when it returns false the memory is empty, a snapshot file could not be read
\* and the cold-start build found no chunk in the store or found no backend.
C10_ReadyIffIndex ==
    \A p \in Procs : Returns(p) =>
        /\ op[p].result = "true" <=> Ready(p)
        /\ op[p].result = "false" =>
               /\ ~_index[p].present /\ _chunk_infos[p] = <<>>
               /\ op[p].read_index = 0 \/ op[p].read_meta = 0
               /\ op[p].corpus = 0 \/ ~faiss

\* C10 witness: ensure_index returns false although documents were written, and
\* another process returns true from memory it loaded from the snapshot files.
C10_Witness ==
    \E p, q \in Procs :
        /\ Returns(p) /\ op[p].result = "false" /\ dbSeq > 0
        /\ Ready(q) /\ _last_loaded_version[q] > 0

\* No save was in progress when the ensure_index call of process p began, and
\* none has started since.
Quiescent(p) == op[p].since = nsaves

\* The three snapshot files on disk were written by one save.
OneSnapshot ==
    /\ VERSION_PATH.save # 0
    /\ INDEX_PATH.save = VERSION_PATH.save
    /\ META_PATH.save = VERSION_PATH.save

\* C11: once no process performs further saves, a process that calls
\* ensure_index ends with the metadata list and the version of the snapshot
\* on disk (the three files being those of one save).
C11_Converged ==
    \A p \in Procs : (Returns(p) /\ Quiescent(p) /\ OneSnapshot) =>
        /\ _chunk_infos[p] = META_PATH.chunk_infos
        /\ _last_loaded_version[p] = _load_version_from_disk

\* The call of process p that is inside its with block is a call of the worker.
WorkerCall(p) == op[p].kind \in {"rebuild_index", "add_chunks_to_index"}

\* The call of process p that is inside its with block stays the same call,
\* entered with the same memory, until it reaches the end of the block.
SameCall(p) ==
    (op[p].kind # "none" /\ op[p].pc # "done") =>
        /\ op'[p].kind = op[p].kind
        /\ op'[p].pre = op[p].pre
        /\ op'[p].top_k = op[p].top_k

\* The memory of process p changes only in a step of the call inside the block.
MemoryUnderLock(p) ==
    <<_index[p], _chunk_infos[p], _last_loaded_version[p]>>
            # <<_index'[p], _chunk_infos'[p], _last_loaded_version'[p]>>
        => (op'[p].kind # "none" /\ op'[p] # op[p])

\* C12: in one process at most one of ensure_index, rebuild_index,
\* add_chunks_to_index, search and get_index_stats is inside its with block:
\* the worker is in a call exactly when that call holds the block, a call is
\* not displaced before the end of its body, and the memory changes only in a
\* step of the call holding the block.
C12_OneCallUnderLock ==
    /\ [](\A p \in Procs : wpc[p] = "busy" <=> WorkerCall(p))
    /\ [][\A p \in Procs : SameCall(p) /\ MemoryUnderLock(p)]_vars

\* C12 witness: ensure_index is between two file reads while a task waits in
\* the queue for the worker, which has already executed one.
C12_Witness ==
    \E p \in Procs :
        /\ op[p].kind = "ensure_index" /\ op[p].pc = "load_meta"
        /\ wpc[p] = "get" /\ task_queue[p] # <<>> /\ executed[p] # <<>>

\* The last n entries of the sequence q.
LastN(q, n) == SubSeq(q, Len(q) - n + 1, Len(q))

\* add_chunks_to_index of process p is about to return true.
Added(p) ==
    op[p].kind = "add_chunks_to_index" /\ op[p].pc = "done" /\ op[p].result = "true"

\* C13: when add_chunks_to_index returns true for a document with n embedded
\* chunks, the index having held m vectors at the call, the index holds m + n
\* vectors and the metadata list m + n entries, the last n being those of the
\* document in the chunk order of the store.
C13_AddGrowsByN ==
    \A p \in Procs : Added(p) =>
        LET m == Len(op[p].pre[1].rows)
            n == Len(op[p].doc)
        IN  /\ Len(_index[p].rows) = m + n
            /\ Len(_chunk_infos[p]) = m + n
            /\ LastN(_chunk_infos[p], n) = InfoRows(op[p].doc)

\* The save of process p has written its last file: the three files hold what
\* the save was given (the metadata file and the version marker as long as
\* nothing damaged them since).
SavedAsGiven(p) ==
    op[p].pc = "read_version" =>
        /\ INDEX_PATH.save = op[p].save /\ INDEX_PATH.index = _index[p]
        /\ META_PATH.save = op[p].save
        /\ META_PATH.state = "ok" => META_PATH.chunk_infos = _chunk_infos[p]
        /\ VERSION_PATH.save = op[p].save
        /\ VERSION_PATH.state = "ok" => VERSION_PATH.val = op[p].version

\* load_index_from_disk of process p reads the version marker and returns.
LoadCompletes(p) == op[p].pc = "load_version" /\ op'[p].pc # "load_version"

\* The load of process p leaves in memory what the files of the one save on
\* disk hold (nothing having damaged the metadata file since it was read, nor
\* the version marker).
LoadedAsSaved(p) ==
    (LoadCompletes(p) /\ OneSnapshot /\ META_PATH.state = "ok"
                      /\ VERSION_PATH.state = "ok") =>
        /\ _index'[p].present
        /\ Len(_index'[p].rows) = Len(INDEX_PATH.index.rows)
        /\ _chunk_infos'[p] = META_PATH.chunk_infos
        /\ _last_loaded_version'[p] = VERSION_PATH.val

SearchCalled(p) == op[p].kind = "none" /\ op'[p].kind = "search"

\* The cases in which search has nothing to search in or for.
Degraded(p, top_k) ==
    \/ ~_index[p].present
    \/ _chunk_infos[p] = <<>>
    \/ Len(_index[p].rows) = 0
    \/ top_k <= 0

\* C15: search returns an empty list, raises nothing and changes no state when
\* there is no in-memory index, the metadata list is empty, the index holds no
\* vector, or the requested k is zero or negative.
C15_DegradedSearch ==
    [][\A p \in Procs :
          (SearchCalled(p) /\ Degraded(p, op'[p].top_k)) =>
              /\ op'[p].pc = "done" /\ op'[p].result = "true"
              /\ op'[p].hits = <<>>
              /\ UNCHANGED <<dbVars, diskVars, memVars, workerVars>>]_vars

\* C15 witness: search was called with k = 0 on an index of two vectors and
\* returns an empty list; the memory is what it was.
C15_Witness ==
    \E p \in Procs :
        /\ op[p].kind = "search" /\ op[p].pc = "done" /\ op[p].result = "true"
        /\ op[p].top_k = 0 /\ op[p].hits = <<>>
        /\ Ready(p) /\ Len(_index[p].rows) = 2
        /\ op[p].pre = <<_index[p], _chunk_infos[p], _last_loaded_version[p]>>

\* C16: ensure_index and search never raise: whatever failure they meet ends
\* in a value returned to the caller.
C16_NeverRaises ==
    \A p \in Procs :
        op[p].kind \in {"ensure_index", "search"} => op[p].result # "raise"

\* rebuild_index or add_chunks_to_index of process p is about to return false
\* or to raise.
Failed(p) ==
    /\ op[p].kind \in {"rebuild_index", "add_chunks_to_index"}
    /\ op[p].pc = "done"
    /\ op[p].result \in {"false", "raise"}

\* None of the three snapshot files was written by the call of process p.
FilesUntouched(p) ==
    op[p].save # 0 =>
        /\ INDEX_PATH.save # op[p].save
        /\ META_PATH.save # op[p].save
        /\ VERSION_PATH.save # op[p].save

\* C17: a rebuild or an incremental add that fails leaves the memory and the
\* three snapshot files as they were at the call, except that a build over an
\* empty corpus clears the memory.
C17_FailureIsolation ==
    \A p \in Procs : Failed(p) =>
        /\ FilesUntouched(p)
        /\ \/ <<_index[p], _chunk_infos[p], _last_loaded_version[p]>> = op[p].pre
           \/ /\ op[p].corpus = 0
              /\ <<_index[p], _chunk_infos[p], _last_loaded_version[p]>>
                     = <<NoneIndex, <<>>, 0>>

\* build_index_from_db, called by process p, has ended.
Built(p) == op[p].saver = "build" /\ op[p].pc = "done"

\* C18: build_index_from_db returns true and leaves the index built from the
\* corpus in memory when the corpus has an embedded chunk and the backend is
\* present; otherwise it returns false and the memory holds no index and an
\* empty metadata list.
C18_BuilderOutcome ==
    \A p \in Procs : Built(p) =>
        IF faiss /\ op[p].corpus >= 1
        THEN /\ op[p].result = "true"
             /\ _index[p] = BuiltIndex(op[p].chunks)
             /\ _chunk_infos[p] = InfoRows(op[p].chunks)
        ELSE /\ op[p].result = "false"
             /\ ~_index[p].present
             /\ _chunk_infos[p] = <<>>

\* The last rebuild of the worker of process p read the store as it is now,
\* and the store holds no embedded chunk: the build was over an empty corpus
\* and the corpus has stayed empty since.
EmptySinceBuild(p) ==
    /\ dbSeq > 0
    /\ readSeq[p] = dbSeq
    /\ WithEmbedding(get_all_chunks_with_document_info) = <<>>

\* C19: after a build over an empty corpus, and for as long as the corpus stays
\* empty, ensure_index does not return ready, search returns an empty list and
\* get_index_stats reports ready = false, whatever snapshot files are on disk.
C19_EmptyStaysNotReady ==
    \A p \in Procs : (EmptySinceBuild(p) /\ op[p].pc = "done") =>
        /\ op[p].kind = "ensure_index" => op[p].result # "true"
        /\ op[p].kind = "search" => op[p].hits = <<>>
        /\ op[p].kind = "get_index_stats" => ~op[p].stats.ready

\* Process p is in a call that has built an index over a non-empty corpus.
HasBuilt(p) == op[p].saver = "build" /\ op[p].corpus >= 1

\* C20: a build over fewer embedded chunks than FAISS_MIN_TRAIN produces the
\* exact index (FlatIP); a build over FAISS_MIN_TRAIN chunks or more produces
\* the approximate index (IVFFlat).
C20_Threshold ==
    \A p \in Procs : HasBuilt(p) =>
        /\ Len(_index[p].rows) = op[p].corpus
        /\ op[p].corpus < FAISS_MIN_TRAIN => _index[p].kind = "FlatIP"
        /\ op[p].corpus >= FAISS_MIN_TRAIN => _index[p].kind = "IVFFlat"

\* C20 witness: a build over exactly FAISS_MIN_TRAIN chunks has produced an
\* IVFFlat index and is about to save it, the snapshot on disk being the FlatIP
\* index of an earlier build over fewer chunks.
C20_Witness ==
    \E p \in Procs :
        /\ HasBuilt(p) /\ op[p].corpus = FAISS_MIN_TRAIN
        /\ _index[p].kind = "IVFFlat"
        /\ op[p].pc = "save_index_tmp"
        /\ INDEX_PATH.state = "ok" /\ INDEX_PATH.index.kind = "FlatIP"
        /\ Len(INDEX_PATH.index.rows) < FAISS_MIN_TRAIN

\* search of process p, called on an exact index and a non-empty metadata
\* list, is about to return.
ExactSearched(p) ==
    /\ op[p].kind = "search" /\ op[p].pc = "done"
    /\ op[p].pre[1].present /\ op[p].pre[1].kind = "FlatIP"
    /\ op[p].pre[2] # <<>>

\* C21: on an exact index of N vectors search(query, k) returns exactly
\* min(k, N) pairs (none when k <= 0), each holding an entry of the metadata
\* list.
C21_ExactTopK ==
    \A p \in Procs : ExactSearched(p) =>
        LET N == Len(op[p].pre[1].rows)
            k == Min(op[p].top_k, N)
        IN  /\ Len(op[p].hits) = IF k <= 0 THEN 0 ELSE k
            /\ Range(op[p].hits) \subseteq Range(op[p].pre[2])

\* The ids of the chunks of the store that have an embedding and a document.
StoreIds == {c.id : c \in {x \in chunks : x.document_id \in documents /\ x.embedding}}

\* rebuild_index of process p is about to return, and the store is as the
\* rebuild read it.
RebuiltFromStore(p) ==
    /\ faiss
    /\ op[p].kind = "rebuild_index" /\ op[p].pc = "done" /\ op[p].result # "raise"
    /\ readSeq[p] = dbSeq

\* C22: a rebuild leaves in memory one metadata entry and one vector for each
\* embedded chunk of the store it read, whatever the memory held before, so a
\* second rebuild with no write in between leaves the same set of entries and
\* the same vector count as the first.
C22_RebuildIdempotent ==
    \A p \in Procs : RebuiltFromStore(p) =>
        /\ InfoIds(p) = StoreIds
        /\ Len(_chunk_infos[p]) = Cardinality(StoreIds)
        /\ Len(_index[p].rows) = Cardinality(StoreIds)

\* C22 witness: the worker has executed two rebuilds in a row, the second
\* over the store the first had read, on a non-empty corpus.
C22_Witness ==
    \E p \in Procs :
        /\ RebuiltFromStore(p) /\ op[p].result = "true"
        /\ op[p].read_before = readSeq[p]
        /\ Len(executed[p]) >= 2
        /\ executed[p][Len(executed[p]) - 1].type = "rebuild_index"
        /\ InfoIds(p) = StoreIds

\* C23: ensure_index returns ready only with a memory it did not touch, a
\* memory loaded whole from one snapshot, or a memory built from the store:
\* never with an index read from a snapshot whose metadata it could not read
\* or whose metadata belongs to another save.
C23_FailClosed ==
    \A p \in Procs : (Returns(p) /\ op[p].result = "true") =>
        \/ op[p].read_index = 0
        \/ op[p].read_meta = op[p].read_index
        \/ Rebuilt(p)

\* ensure_index of process p was called with the version marker absent or
\* unparsable; both snapshot files were there, since the call has saved
\* nothing, and can be read.
BadMarkerSeen(p) ==
    /\ Returns(p)
    /\ op[p].marker \in {"absent", "corrupt"}
    /\ op[p].save = 0
    /\ INDEX_PATH.state = "ok" /\ META_PATH.state = "ok"

\* C24: the version marker reads as 0 when it is absent or unparsable, and an
\* ensure_index check that reads such a marker reloads the snapshot from disk.
C24_BadMarkerReloads ==
    \A p \in Procs : BadMarkerSeen(p) =>
        /\ ~op[p].newer
        /\ op[p].read_index # 0 /\ op[p].read_meta # 0

\* The call of process p is add_chunks_to_index.
Adding(p) == op[p].kind = "add_chunks_to_index"

\* add_chunks_to_index of process p was called with no index in memory.
CalledWithoutIndex(p) == ~op[p].pre[1].present \/ op[p].pre[2] = <<>>

\* The load of the call of process p has read both files and found entries.
LoadSucceeded(p) ==
    op[p].read_index # 0 /\ op[p].read_meta # 0 /\ _chunk_infos[p] # <<>>

\* C25: add_chunks_to_index appends only to an index that exists; called with
\* no index in memory it appends only after a load that succeeded, it runs
\* the full rebuild only after a load that failed, and after that rebuild the
\* memory is the rebuilt index with nothing appended.
C25_AppendNeedsIndex ==
    \A p \in Procs : Adding(p) =>
        /\ op[p].pc = "append" =>
               /\ _index[p].present /\ _chunk_infos[p] # <<>>
               /\ CalledWithoutIndex(p) => LoadSucceeded(p)
        /\ op[p].pc = "build" => (CalledWithoutIndex(p) /\ ~LoadSucceeded(p))
        /\ (op[p].saver = "build" /\ op[p].corpus >= 1) =>
               /\ _index[p].rows = VectorRows(op[p].chunks)
               /\ _chunk_infos[p] = InfoRows(op[p].chunks)

\* C25 witness: add_chunks_to_index, called with no index in memory, read the
\* index file, could not read the metadata file, and returns true from the
\* full rebuild with the rebuilt index in memory.
C25_Witness ==
    \E p \in Procs :
        /\ Adding(p) /\ op[p].pc = "done" /\ op[p].result = "true"
        /\ CalledWithoutIndex(p)
        /\ op[p].read_index # 0 /\ op[p].read_meta = 0
        /\ op[p].saver = "build"
        /\ _index[p].rows = VectorRows(op[p].chunks)

\* The worker of process p takes an add_chunks task and calls
\* add_chunks_to_index.
AddCalled(p) == op[p].kind = "none" /\ op'[p].kind = "add_chunks_to_index"

\* The document of the task at the head of the queue of process p has no
\* chunk with an embedding in the store.
NothingToAdd(p) ==
    \A c \in chunks :
        ~(c.document_id = Head(task_queue[p]).doc_id
            /\ c.document_id \in documents /\ c.embedding)

\* C26: add_chunks_to_index for a document without embedded chunk, or with
\* the backend missing, returns false and leaves the memory and the snapshot
\* files as they are (the read of the store not failing).
C26_NothingToAdd ==
    [][\A p \in Procs :
          (AddCalled(p) /\ fault # "store" /\ (~faiss \/ NothingToAdd(p))) =>
              /\ op'[p].pc = "done" /\ op'[p].result = "false"
              /\ UNCHANGED <<memVars, diskVars, nsaves>>]_vars

\* C26 witness: add_chunks_to_index returns false for a document deleted
\* after its task was enqueued, the backend being present and the memory
\* holding the index of another document.
C26_Witness ==
    \E p \in Procs :
        /\ faiss /\ Adding(p) /\ op[p].pc = "done" /\ op[p].result = "false"
        /\ op[p].doc = <<>> /\ op[p].save = 0
        /\ Ready(p)
        /\ op[p].pre = <<_index[p], _chunk_infos[p], _last_loaded_version[p]>>

\* No chunk_id occurs twice in the metadata list infos.
NoDuplicate(infos) ==
    \A i, j \in DOMAIN infos : i # j => infos[i].chunk_id # infos[j].chunk_id

\* C27: no chunk_id occurs more than once in the metadata list of a process
\* or in the metadata file (the backend being present and the environment
\* having caused no fault).
C27_NoDuplicateChunk ==
    (faiss /\ ncorrupt = 0) =>
        /\ \A p \in Procs : NoDuplicate(_chunk_infos[p])
        /\ NoDuplicate(META_PATH.chunk_infos)

\* The queue of process p is empty, its worker waits for a task, and
\* ensure_index is about to return: every write has had its task taken.
Settled(p) ==
    /\ Returns(p)
    /\ task_queue[p] = <<>>
    /\ wpc[p] = "get"

\* C28: in one process, once the queue is empty and the worker idle, the
\* chunk_ids of the metadata list after ensure_index are those of the chunks
\* with an embedding in the store (the backend being present and the
\* environment having caused no fault).
C28_IndexReflectsStore ==
    (faiss /\ ncorrupt = 0) =>
        \A p \in Procs : (Settled(p) /\ Len(executed[p]) + Len(discarded[p]) = dbSeq)
                              => InfoIds(p) = StoreIds

\* Every load_index_from_disk of the call of process p has read the index file
\* and returned not-loaded at the metadata file; nothing else has assigned the
\* memory since the call began.
LoadsFailed(p) ==
    /\ op[p].read_index # 0 /\ op[p].read_meta = 0
    /\ op[p].pc \in {"load_index", "build", "done"}
    /\ op[p].saver = "none"

\* C29: a load that returns not-loaded leaves the index, the metadata list and
\* the version in memory as they were before it.
C29_FailedLoadKeepsMemory ==
    \A p \in Procs : LoadsFailed(p) =>
        <<_index[p], _chunk_infos[p], _last_loaded_version[p]>> = op[p].pre

\* A rebuild or an incremental add of process p has completed with success, and
\* the version marker on disk is still the one its own save wrote.
SavedLast(p) ==
    /\ op[p].kind \in {"rebuild_index", "add_chunks_to_index"}
    /\ op[p].pc = "done" /\ op[p].result = "true"
    /\ op[p].save # 0
    /\ VERSION_PATH.save = op[p].save /\ VERSION_PATH.state = "ok"
    /\ ncorrupt = 0

\* C30: after a successful rebuild or incremental add, nothing having been saved
\* since and the environment having caused no fault, the version in memory is the value of the version marker on disk, so
\* that the next ensure_index has nothing to reload.
C30_VersionAfterSave ==
    \A p \in Procs : SavedLast(p) =>
        /\ _last_loaded_version[p] = _load_version_from_disk
        /\ ~ReloadNeeded(p)

\* The chunk_ids of the metadata file of the snapshot on disk.
DiskIds == {META_PATH.chunk_infos[i].chunk_id : i \in DOMAIN META_PATH.chunk_infos}

\* The worker of process p has executed the add_chunks task of document d, whose
\* chunks are in the store, and lives on.
AddDone(p, d) ==
    /\ \E i \in DOMAIN executed[p] :
           executed[p][i].type = "add_chunks" /\ executed[p][i].doc_id = d
    /\ d \in documents
    /\ wpc[p] = "get"

\* C31: when two processes have each completed the incremental add of a document
\* and no call is in progress, the metadata file on disk holds the chunks of both
\* documents.
C31_NoLostAdd ==
    \A p, q \in Procs : \A d, e \in documents :
        (/\ p # q /\ d # e
         /\ AddDone(p, d) /\ AddDone(q, e)
         /\ \A r \in Procs : ~Locked(r))
            => {c.id : c \in {x \in chunks : x.document_id \in {d, e}}} \subseteq DiskIds

\* C32: every task placed in the queue is in the end taken from it and executed
\* or, for a rebuild_index, dropped by the drain, also after a task whose call
\* raised.
C32_EveryTaskProcessed ==
    \A n \in 1..MaxWrites :
        (dbSeq >= n) ~> (Len(executed[1]) + Len(discarded[1]) >= n)

\* The worker of process p reads the sentinel and terminates.
Stops(p) == wpc[p] = "get" /\ wpc'[p] = "stopped"

\* C33: when the worker reads the sentinel and terminates, no task enqueued
\* before the sentinel is left in the queue.
C33_StopAfterEarlierTasks ==
    [][\A p \in Procs : Stops(p) =>
          \A i \in DOMAIN task_queue'[p] :
              task_queue'[p][i].seq > Head(task_queue[p]).seq]_vars

====
